---- MODULE Spec2Model ----
(***************************************************************************)
(* Model of src/src/lib.rs: the screen-lock monitor plugin.                *)
(*                                                                         *)
(* init() spawns one background thread per call.  Which loop the thread    *)
(* runs is chosen by cfg(target_os): the Windows message loop, the Linux   *)
(* logind property loop, or the macOS session-dictionary poll.  The host   *)
(* stores its AppHandle into the OnceLock WINDOW_TAURI at some point; the  *)
(* thread reads it each time it wants to emit.                             *)
(*                                                                         *)
(* handle.emit's Result is discarded by the code (let _ = ...): the call   *)
(* itself is the publication, recorded in `published`.                     *)
(***************************************************************************)
EXTENDS Integers, Sequences, FiniteSets, TLC

\* ---- bounds of the model ----
MaxInit == 2      \* calls of init() in one process
MaxObs == 4       \* values fetched from the native source, all tasks together

Tasks == 1..MaxInit

\* cfg(target_os = ...)
Variants == {"windows", "linux", "macos"}
Polled == {"linux", "macos"}

\* WINDOW_TAURI is a OnceLock: empty, or holding the AppHandle stored first.
Unset == "unset"
Handles == {"app1", "app2"}

EventName == "window_screen_lock_status://change_session_status"

\* MSG::default(), and the messages GetMessageA may deliver.
DefaultMsg == [message |-> "WM_NULL", wParam |-> "NONE"]
Messages ==
    { [message |-> "WM_WTSSESSION_CHANGE", wParam |-> w] :
          w \in {"WTS_SESSION_LOCK", "WTS_SESSION_UNLOCK", "WTS_SESSION_LOGON"} }
    \cup { [message |-> "WM_PAINT", wParam |-> "WTS_SESSION_LOCK"] }

VARIABLES
    variant,      \* the target_os the crate was compiled for
    handle,       \* WINDOW_TAURI
    setErr,       \* a WINDOW_TAURI.set has returned Err (cell already full)
    initCalls,    \* number of init() calls that have returned
    inInit,       \* the host is inside init(), after thread::spawn
    plugin,       \* what init() returned last ("" before the first return)
    pc,           \* per task: position of the thread
    flg,          \* per task: `let mut flg` (linux, macos)
    obs,          \* per task: the values the loop has fetched, in order
    published,    \* the events handed to handle.emit, in order
    cause,        \* per task: why the thread left its loop ("" while it runs)
    conns,        \* per task: number of Connection::system() successes
    fetched,      \* number of values fetched so far, all tasks together
    setAt         \* per task: how many values it had fetched when the
                  \* handle was stored (meaningful once handle # Unset)

vars == <<variant, handle, setErr, initCalls, inInit, plugin, pc, flg, obs,
          published, cause, conns, fetched, setAt>>

\* ---- helpers ----

\* mutant: the two string literals exchanged
PayloadSwapped(locked) == IF locked THEN "unlock" ELSE "lock"

\* linux 183-195, macos 235-247: the payload of a state
Payload(locked) == IF locked THEN "lock" ELSE "unlock"

\* mutant: the comparison with flg left out
ChangedAlways(previous, observed) == TRUE

\* linux 179, macos 231: `if flg != current`
Changed(previous, observed) == previous # observed

\* the value the iteration is working on: the last one fetched
Current(t) == obs[t][Len(obs[t])]

\* handle.emit(name, payload), on the handle WINDOW_TAURI.get() returned
Emit(t, payload) ==
    published' = Append(published,
                        [task |-> t, name |-> EventName, payload |-> payload,
                         at |-> Len(obs[t]), via |-> handle])

Terminate(t, why) ==
    /\ pc' = [pc EXCEPT ![t] = "done"]
    /\ cause' = [cause EXCEPT ![t] = why]

Goto(t, where) ==
    /\ pc' = [pc EXCEPT ![t] = where]
    /\ UNCHANGED cause

Fetch(t, v) ==
    /\ fetched < MaxObs
    /\ obs' = [obs EXCEPT ![t] = Append(@, v)]
    /\ fetched' = fetched + 1

\* ---- the host ----

PluginName == "window_screen_lock_status"

\* pub fn init(), 69-259: thread::spawn of the loop for this target_os.
\* The thread runs from here on; nothing guards a second call.
InitCall ==
    /\ ~inInit
    /\ initCalls < MaxInit
    /\ inInit' = TRUE
    /\ pc' = [pc EXCEPT ![initCalls + 1] = "start"]
    /\ UNCHANGED <<variant, setErr, plugin, initCalls, setAt, handle, flg,
                   obs, published, cause, conns, fetched>>

\* mutant: init joins the thread it spawned before it returns
InitReturnJoin ==
    /\ inInit
    /\ pc[initCalls + 1] = "done"
    /\ inInit' = FALSE
    /\ initCalls' = initCalls + 1
    /\ plugin' = PluginName
    /\ UNCHANGED <<variant, setErr, setAt, handle, pc, flg, obs, published,
                   cause, conns, fetched>>

\* 260: Builder::new("window_screen_lock_status").build() is returned
InitReturn ==
    /\ inInit
    /\ inInit' = FALSE
    /\ initCalls' = initCalls + 1
    /\ plugin' = PluginName
    /\ UNCHANGED <<variant, setErr, setAt, handle, pc, flg, obs, published,
                   cause, conns, fetched>>

\* mutant: a later store replaces the handle
SetHandleOverwrite(h) ==
    /\ handle' = h
    /\ setErr' = (setErr \/ handle # Unset)
    /\ setAt' = IF handle = Unset THEN [t \in Tasks |-> Len(obs[t])] ELSE setAt
    /\ UNCHANGED <<variant, inInit, plugin, initCalls, pc, flg, obs,
                   published, cause, conns, fetched>>

\* WINDOW_TAURI.set(h): stores h if the cell is empty, otherwise leaves it.
SetHandle(h) ==
    /\ handle' = IF handle = Unset THEN h ELSE handle
    /\ setErr' = (setErr \/ handle # Unset)
    /\ setAt' = IF handle = Unset THEN [t \in Tasks |-> Len(obs[t])] ELSE setAt
    /\ UNCHANGED <<variant, inInit, plugin, initCalls, pc, flg, obs,
                   published, cause, conns, fetched>>

\* ---- linux ----

\* mutant: the remembered state starts as locked
LinuxStartLocked(t) ==
    /\ variant = "linux" /\ pc[t] = "start"
    /\ flg' = [flg EXCEPT ![t] = TRUE]
    /\ Goto(t, "connect")
    /\ UNCHANGED <<variant, setErr, inInit, plugin, setAt, handle, initCalls,
                   obs, published, conns, fetched>>

\* 148-149: info!, let mut flg = false
LinuxStart(t) ==
    /\ variant = "linux" /\ pc[t] = "start"
    /\ flg' = [flg EXCEPT ![t] = FALSE]
    /\ Goto(t, "connect")
    /\ UNCHANGED <<variant, setErr, inInit, plugin, setAt, handle, initCalls,
                   obs, published, conns, fetched>>

\* 151-152: Connection::system() is Ok
LinuxConnect(t) ==
    /\ variant = "linux" /\ pc[t] = "connect"
    /\ conns' = [conns EXCEPT ![t] = @ + 1]
    /\ Goto(t, "proxy")
    /\ UNCHANGED <<variant, setErr, inInit, plugin, setAt, handle, initCalls,
                   flg, obs, published, fetched>>

\* mutant: `continue` after the warning instead of `break`
LinuxConnectFailRetry(t) ==
    /\ variant = "linux" /\ pc[t] = "connect"
    /\ pc' = [pc EXCEPT ![t] = "connect"]
    /\ cause' = [cause EXCEPT ![t] = "connect"]
    /\ UNCHANGED <<variant, setErr, inInit, plugin, setAt, handle, initCalls,
                   flg, obs, published, conns, fetched>>

\* 153-156: Connection::system() is Err: warn, break
LinuxConnectFail(t) ==
    /\ variant = "linux" /\ pc[t] = "connect"
    /\ Terminate(t, "connect")
    /\ UNCHANGED <<variant, setErr, inInit, plugin, setAt, handle, initCalls,
                   flg, obs, published, conns, fetched>>

\* 159-160, 167: SessionProxyBlocking::new is Ok, receive_locked_hint_changed
LinuxProxy(t) ==
    /\ variant = "linux" /\ pc[t] = "proxy"
    /\ Goto(t, "next")
    /\ UNCHANGED <<variant, setErr, inInit, plugin, setAt, handle, initCalls,
                   flg, obs, published, conns, fetched>>

\* 161-164: SessionProxyBlocking::new is Err: warn, break
LinuxProxyFail(t) ==
    /\ variant = "linux" /\ pc[t] = "proxy"
    /\ Terminate(t, "proxy")
    /\ UNCHANGED <<variant, setErr, inInit, plugin, setAt, handle, initCalls,
                   flg, obs, published, conns, fetched>>

\* 169-172: property.next() is Some(pro) and pro.get() is Ok(prop)
LinuxGet(t, prop) ==
    /\ variant = "linux" /\ pc[t] = "next"
    /\ Fetch(t, prop)
    /\ Goto(t, "debounce")
    /\ UNCHANGED <<variant, setErr, inInit, plugin, setAt, handle, initCalls,
                   flg, published, conns>>

\* 173-176: pro.get() is Err: warn, break
LinuxGetFail(t) ==
    /\ variant = "linux" /\ pc[t] = "next"
    /\ Terminate(t, "read")
    /\ UNCHANGED <<variant, setErr, inInit, plugin, setAt, handle, initCalls,
                   flg, obs, published, conns, fetched>>

\* 204-207: property.next() is None: warn, break
LinuxStreamEnd(t) ==
    /\ variant = "linux" /\ pc[t] = "next"
    /\ Terminate(t, "end")
    /\ UNCHANGED <<variant, setErr, inInit, plugin, setAt, handle, initCalls,
                   flg, obs, published, conns, fetched>>

\* mutant: the None arm warns and goes on instead of `break`
LinuxDebounceGoOn(t) ==
    /\ variant = "linux" /\ pc[t] = "debounce"
    /\ IF Changed(flg[t], Current(t))
         THEN /\ flg' = [flg EXCEPT ![t] = Current(t)]
              /\ Goto(t, "sleep")
              /\ IF handle # Unset
                   THEN Emit(t, Payload(Current(t)))
                   ELSE UNCHANGED published
         ELSE /\ Goto(t, "sleep")
              /\ UNCHANGED <<flg, published>>
    /\ UNCHANGED <<variant, setErr, inInit, plugin, setAt, handle, initCalls,
                   obs, conns, fetched>>

\* 179-202: if flg != current_property { flg = current_property;
\*   match WINDOW_TAURI.get() { Some => emit, None => warn, break } }
LinuxDebounce(t) ==
    /\ variant = "linux" /\ pc[t] = "debounce"
    /\ IF Changed(flg[t], Current(t))
         THEN /\ flg' = [flg EXCEPT ![t] = Current(t)]
              /\ IF handle # Unset
                   THEN /\ Emit(t, Payload(Current(t)))
                        /\ Goto(t, "sleep")
                   ELSE /\ Terminate(t, "notready")
                        /\ UNCHANGED published
         ELSE /\ Goto(t, "sleep")
              /\ UNCHANGED <<flg, published>>
    /\ UNCHANGED <<variant, setErr, inInit, plugin, setAt, handle, initCalls,
                   obs, conns, fetched>>

\* 209: thread::sleep, then the next iteration of `loop`
LinuxSleep(t) ==
    /\ variant = "linux" /\ pc[t] = "sleep"
    /\ Goto(t, "connect")
    /\ UNCHANGED <<variant, setErr, inInit, plugin, setAt, handle, initCalls,
                   flg, obs, published, conns, fetched>>

\* ---- macos ----

\* mutant: the remembered state starts as locked
MacStartLocked(t) ==
    /\ variant = "macos" /\ pc[t] = "start"
    /\ flg' = [flg EXCEPT ![t] = TRUE]
    /\ Goto(t, "poll")
    /\ UNCHANGED <<variant, setErr, inInit, plugin, setAt, handle, initCalls,
                   obs, published, conns, fetched>>

\* 217-218: info!, let mut flg = false
MacStart(t) ==
    /\ variant = "macos" /\ pc[t] = "start"
    /\ flg' = [flg EXCEPT ![t] = FALSE]
    /\ Goto(t, "poll")
    /\ UNCHANGED <<variant, setErr, inInit, plugin, setAt, handle, initCalls,
                   obs, published, conns, fetched>>

\* 221-230: CGSessionCopyCurrentDictionary, wrap_under_create_rule, and
\* find("CGSSessionScreenIsLocked"): None => false, Some(_) => true
MacPoll(t, present) ==
    /\ variant = "macos" /\ pc[t] = "poll"
    /\ Fetch(t, present)
    /\ Goto(t, "debounce")
    /\ UNCHANGED <<variant, setErr, inInit, plugin, setAt, handle, initCalls,
                   flg, published, conns>>

\* 221-223: CGSessionCopyCurrentDictionary returns NULL (no window-server
\* session); wrap_under_create_rule panics on NULL and the thread ends.
MacPollFail(t) ==
    /\ variant = "macos" /\ pc[t] = "poll"
    /\ Terminate(t, "dictionary")
    /\ UNCHANGED <<variant, setErr, inInit, plugin, setAt, handle, initCalls,
                   flg, obs, published, conns, fetched>>

\* mutant: the assignment to flg left out
MacDebounceForget(t) ==
    /\ variant = "macos" /\ pc[t] = "debounce"
    /\ IF Changed(flg[t], Current(t))
         THEN IF handle # Unset
                THEN /\ Emit(t, Payload(Current(t)))
                     /\ Goto(t, "sleep")
                ELSE /\ Terminate(t, "notready")
                     /\ UNCHANGED published
         ELSE /\ Goto(t, "sleep")
              /\ UNCHANGED published
    /\ UNCHANGED <<variant, setErr, inInit, plugin, setAt, handle, initCalls,
                   flg, obs, conns, fetched>>

\* 231-254: if flg != current_session_property { flg = ...;
\*   match WINDOW_TAURI.get() { Some => emit, None => warn, break } }
MacDebounce(t) ==
    /\ variant = "macos" /\ pc[t] = "debounce"
    /\ IF Changed(flg[t], Current(t))
         THEN /\ flg' = [flg EXCEPT ![t] = Current(t)]
              /\ IF handle # Unset
                   THEN /\ Emit(t, Payload(Current(t)))
                        /\ Goto(t, "sleep")
                   ELSE /\ Terminate(t, "notready")
                        /\ UNCHANGED published
         ELSE /\ Goto(t, "sleep")
              /\ UNCHANGED <<flg, published>>
    /\ UNCHANGED <<variant, setErr, inInit, plugin, setAt, handle, initCalls,
                   obs, conns, fetched>>

\* 255: thread::sleep, then the next iteration of `loop`
MacSleep(t) ==
    /\ variant = "macos" /\ pc[t] = "sleep"
    /\ Goto(t, "poll")
    /\ UNCHANGED <<variant, setErr, inInit, plugin, setAt, handle, initCalls,
                   flg, obs, published, conns, fetched>>

\* ---- windows ----

\* 73-110: window class, hidden window, MSG::default(),
\* register_session_notification
WinStart(t) ==
    /\ variant = "windows" /\ pc[t] = "start"
    /\ Goto(t, "getmsg")
    /\ UNCHANGED <<variant, setErr, inInit, plugin, setAt, handle, initCalls,
                   flg, obs, published, conns, fetched>>

\* 74, 80: GetModuleHandleA(None).unwrap() or LoadCursorW(..).unwrap()
\* panics and the thread ends.
WinStartFail(t) ==
    /\ variant = "windows" /\ pc[t] = "start"
    /\ Terminate(t, "setup")
    /\ UNCHANGED <<variant, setErr, inInit, plugin, setAt, handle, initCalls,
                   flg, obs, published, conns, fetched>>

\* the MSG the loop body reads: the one GetMessageA filled last
StaleMsg(t) ==
    IF obs[t] = <<>> THEN DefaultMsg
    ELSE [message |-> Current(t).message, wParam |-> Current(t).wParam]

\* 111: GetMessageA returns a positive value and has filled `message`
WinGetMessage(t, m) ==
    /\ variant = "windows" /\ pc[t] = "getmsg"
    /\ Fetch(t, [message |-> m.message, wParam |-> m.wParam, ret |-> 1])
    /\ Goto(t, "dispatch")
    /\ UNCHANGED <<variant, setErr, inInit, plugin, setAt, handle, initCalls,
                   flg, published, conns>>

\* 111: GetMessageA returns 0 (WM_QUIT): the while loop ends
WinGetMessageQuit(t) ==
    /\ variant = "windows" /\ pc[t] = "getmsg"
    /\ Terminate(t, "quit")
    /\ UNCHANGED <<variant, setErr, inInit, plugin, setAt, handle, initCalls,
                   flg, obs, published, conns, fetched>>

\* 111: GetMessageA returns -1 (error).  BOOL::into() is `self.0 != 0`, so
\* the condition is true and the body runs on `message` as it was left.
WinGetMessageError(t) ==
    /\ variant = "windows" /\ pc[t] = "getmsg"
    /\ Fetch(t, [message |-> StaleMsg(t).message,
                 wParam |-> StaleMsg(t).wParam, ret |-> -1])
    /\ Goto(t, "dispatch")
    /\ UNCHANGED <<variant, setErr, inInit, plugin, setAt, handle, initCalls,
                   flg, published, conns>>

\* mutant: the test of message.message left out
WinPayloadAnyMessage(m) ==
    IF m.wParam = "WTS_SESSION_LOCK" THEN "lock"
    ELSE IF m.wParam = "WTS_SESSION_UNLOCK" THEN "unlock"
    ELSE "none"

\* 116-138: what the match on message.wParam publishes, if anything.
\* (The arms are written Ok/Err over WINDOW_TAURI.get(); they are read as
\* the Some/None of the other two loops: emit, or warn and go on.)
WinPayload(m) ==
    IF m.message # "WM_WTSSESSION_CHANGE" THEN "none"
    ELSE IF m.wParam = "WTS_SESSION_LOCK" THEN "lock"
    ELSE IF m.wParam = "WTS_SESSION_UNLOCK" THEN "unlock"
    ELSE "none"

\* mutant: the sleep placed inside `if message.message == ...`
WinDispatchSleepInIf(t) ==
    /\ variant = "windows" /\ pc[t] = "dispatch"
    /\ IF WinPayload(Current(t)) # "none" /\ handle # Unset
         THEN Emit(t, WinPayload(Current(t)))
         ELSE UNCHANGED published
    /\ Goto(t, IF Current(t).message = "WM_WTSSESSION_CHANGE"
                 THEN "sleep" ELSE "getmsg")
    /\ UNCHANGED <<variant, setErr, inInit, plugin, setAt, handle, initCalls,
                   flg, obs, conns, fetched>>

\* 112-139: the body of the while loop up to the sleep
WinDispatch(t) ==
    /\ variant = "windows" /\ pc[t] = "dispatch"
    /\ IF WinPayload(Current(t)) # "none" /\ handle # Unset
         THEN Emit(t, WinPayload(Current(t)))
         ELSE UNCHANGED published
    /\ Goto(t, "sleep")
    /\ UNCHANGED <<variant, setErr, inInit, plugin, setAt, handle, initCalls,
                   flg, obs, conns, fetched>>

\* mutant: the loop body runs again without a new GetMessageA
WinSleepRedispatch(t) ==
    /\ variant = "windows" /\ pc[t] = "sleep"
    /\ Len(published) < MaxObs
    /\ Goto(t, IF obs[t] = <<>> THEN "getmsg" ELSE "dispatch")
    /\ UNCHANGED <<variant, setErr, inInit, plugin, setAt, handle, initCalls,
                   flg, obs, published, conns, fetched>>

\* 140: thread::sleep, then GetMessageA again
WinSleep(t) ==
    /\ variant = "windows" /\ pc[t] = "sleep"
    /\ Goto(t, "getmsg")
    /\ UNCHANGED <<variant, setErr, inInit, plugin, setAt, handle, initCalls,
                   flg, obs, published, conns, fetched>>

Init ==
    /\ variant \in Variants
    /\ handle = Unset
    /\ setErr = FALSE
    /\ initCalls = 0
    /\ inInit = FALSE
    /\ plugin = ""
    /\ pc = [t \in Tasks |-> "unspawned"]
    /\ flg = [t \in Tasks |-> FALSE]
    /\ obs = [t \in Tasks |-> <<>>]
    /\ published = <<>>
    /\ cause = [t \in Tasks |-> ""]
    /\ conns = [t \in Tasks |-> 0]
    /\ fetched = 0
    /\ setAt = [t \in Tasks |-> 0]

\* what the host and the spawned threads do after init()
Step ==
    \/ InitReturn
    \/ \E h \in Handles : SetHandle(h)
    \/ \E t \in Tasks : LinuxStart(t)
    \/ \E t \in Tasks : LinuxConnect(t)
    \/ \E t \in Tasks : LinuxConnectFail(t)
    \/ \E t \in Tasks : LinuxProxy(t)
    \/ \E t \in Tasks : LinuxProxyFail(t)
    \/ \E t \in Tasks, prop \in BOOLEAN : LinuxGet(t, prop)
    \/ \E t \in Tasks : LinuxGetFail(t)
    \/ \E t \in Tasks : LinuxStreamEnd(t)
    \/ \E t \in Tasks : LinuxDebounce(t)
    \/ \E t \in Tasks : LinuxSleep(t)
    \/ \E t \in Tasks : MacStart(t)
    \/ \E t \in Tasks, present \in BOOLEAN : MacPoll(t, present)
    \/ \E t \in Tasks : MacPollFail(t)
    \/ \E t \in Tasks : MacDebounce(t)
    \/ \E t \in Tasks : MacSleep(t)
    \/ \E t \in Tasks : WinStart(t)
    \/ \E t \in Tasks : WinStartFail(t)
    \/ \E t \in Tasks, m \in Messages : WinGetMessage(t, m)
    \/ \E t \in Tasks : WinGetMessageQuit(t)
    \/ \E t \in Tasks : WinGetMessageError(t)
    \/ \E t \in Tasks : WinDispatch(t)
    \/ \E t \in Tasks : WinSleep(t)

\* The host calls init() once at start-up.
InitOnce == initCalls = 0 /\ InitCall

Next == InitOnce \/ Step

Spec == Init /\ [][Next]_vars

\* The host calls init() again: every call spawns a thread.
NextReinit == InitCall \/ Step

SpecReinit == Init /\ [][NextReinit]_vars

\* ---------------------------------------------------------------------
\* Properties
\* ---------------------------------------------------------------------

\* the events one task has published, in order
PublishedBy(t) == SelectSeq(published, LAMBDA e : e.task = t)

\* no two neighbours of a sequence of events carry the same payload
NoRepeat(evs) == \A i \in 1..(Len(evs) - 1) : evs[i].payload # evs[i + 1].payload

\* the values a task has finished handling (the one being handled excluded)
Processed(t) ==
    IF pc[t] \in {"debounce", "dispatch"}
      THEN SubSeq(obs[t], 1, Len(obs[t]) - 1)
      ELSE obs[t]

\* C1: in the linux and macos tasks no two consecutively published events
\* of a task carry the same payload, whatever is observed and whenever the
\* handle is stored.
C1_NoDuplicatePolled ==
    variant \in Polled => \A t \in Tasks : NoRepeat(PublishedBy(t))

\* C1 witness: a polled task has seen the same value twice in a row and has
\* published two events.
C1_Witness ==
    /\ variant \in Polled
    /\ Len(PublishedBy(1)) >= 2
    /\ \E i \in 1..(Len(obs[1]) - 1) : obs[1][i] = obs[1][i + 1]

\* C2: in the windows task no two consecutively published events of a task
\* carry the same payload (a repeated lock or unlock message publishes only
\* once).
C2_WindowsDebounced ==
    variant = "windows" => \A t \in Tasks : NoRepeat(PublishedBy(t))

\* the number of places at which a sequence changes value
Diffs(s) == Cardinality({i \in 1..(Len(s) - 1) : s[i] # s[i + 1]})

\* a polled task whose handle was stored before it fetched anything and
\* whose source has not failed
ReadyFromStart(t) ==
    /\ variant \in Polled
    /\ pc[t] # "unspawned"
    /\ handle # Unset /\ setAt[t] = 0
    /\ cause[t] = ""

\* C3 as stated: with the handle stored before the first observation, a
\* polled task has published as many events as the observed sequence has
\* adjacent differing pairs.
C3_CountWithinObs ==
    \A t \in Tasks :
        ReadyFromStart(t) => Len(PublishedBy(t)) = Diffs(Processed(t))

\* C3 amended: the count is that of the observed sequence preceded by the
\* initial remembered state false.
C3_CountFromInitial ==
    \A t \in Tasks :
        ReadyFromStart(t) =>
            Len(PublishedBy(t)) = Diffs(<<FALSE>> \o Processed(t))

\* C3 witness: the handle came first, and the task has handled
\* true, true, false and published twice.
C3_Witness ==
    /\ ReadyFromStart(1)
    /\ Processed(1) = <<TRUE, TRUE, FALSE>>
    /\ Len(PublishedBy(1)) = 2

\* C4: in a polled task the remembered state starts false; with the handle
\* stored, handling an observation that differs publishes exactly one event
\* and remembers it, handling one that is equal publishes nothing and
\* leaves the remembered state; so after each handled observation the
\* remembered state equals it.
C4_DebounceStep ==
    /\ [](\A t \in Tasks :
            variant \in Polled =>
              /\ (obs[t] = <<>> /\ pc[t] \notin {"unspawned", "start"})
                     => flg[t] = FALSE
              /\ (Len(obs[t]) = 1 /\ pc[t] = "debounce") => flg[t] = FALSE
              /\ (obs[t] # <<>> /\ pc[t] # "debounce")
                     => flg[t] = obs[t][Len(obs[t])])
    /\ [][\A t \in Tasks :
            (/\ variant \in Polled
             /\ pc[t] = "debounce" /\ pc'[t] # "debounce"
             /\ handle # Unset)
            => IF obs[t][Len(obs[t])] # flg[t]
                 THEN /\ Len(published') = Len(published) + 1
                      /\ SubSeq(published', 1, Len(published)) = published
                      /\ published'[Len(published')].task = t
                      /\ published'[Len(published')].payload =
                            (IF obs[t][Len(obs[t])] THEN "lock" ELSE "unlock")
                      /\ flg'[t] = obs[t][Len(obs[t])]
                 ELSE /\ published' = published
                      /\ flg'[t] = flg[t]]_vars

\* C4 witness: true, true, false handled with the handle stored: "lock",
\* nothing, "unlock", and the remembered state is false again.
C4_Witness ==
    /\ variant \in Polled
    /\ handle # Unset /\ setAt[1] = 0
    /\ obs[1] = <<TRUE, TRUE, FALSE>> /\ pc[1] = "sleep"
    /\ Len(published) = 2
    /\ published[1].payload = "lock" /\ published[2].payload = "unlock"
    /\ published[1].at = 1 /\ published[2].at = 3
    /\ flg[1] = FALSE

\* C5: in every variant, a task that detects a transition while the handle
\* is not stored publishes nothing, does not terminate, and goes on to the
\* end of the iteration (the sleep before the next fetch).
C5_NotReadyContinues ==
    [][\A t \in Tasks :
         (/\ handle = Unset
          /\ pc[t] \in {"debounce", "dispatch"} /\ pc'[t] # pc[t]
          /\ IF variant \in Polled
               THEN obs[t][Len(obs[t])] # flg[t]
               ELSE /\ obs[t][Len(obs[t])].message = "WM_WTSSESSION_CHANGE"
                    /\ obs[t][Len(obs[t])].wParam
                          \in {"WTS_SESSION_LOCK", "WTS_SESSION_UNLOCK"})
         => /\ published' = published
            /\ pc'[t] = "sleep"]_vars

\* C6: not-ready is recoverable in the polled tasks: a transition detected
\* while the handle is not stored never ends the task, so that a later
\* differing observation can still be published.
C6_NotReadyRecoverable ==
    \A t \in Tasks : variant \in Polled => cause[t] # "notready"

\* the linux task has met a source failure
SourceFailed(t) == cause[t] \in {"connect", "proxy", "read", "end"}

\* C7: once the linux task has met a connection, proxy or read failure or
\* the end of the stream, it is terminated and stays so: it fetches
\* nothing more, never runs again, and publishes nothing more.
C7_FailureTerminal ==
    /\ [](\A t \in Tasks :
            (variant = "linux" /\ SourceFailed(t)) => pc[t] = "done")
    /\ [][\A t \in Tasks :
            (variant = "linux" /\ SourceFailed(t))
            => /\ pc'[t] = "done"
               /\ obs'[t] = obs[t]
               /\ conns'[t] = conns[t]
               /\ flg'[t] = flg[t]
               /\ SelectSeq(published', LAMBDA e : e.task = t)
                    = SelectSeq(published, LAMBDA e : e.task = t)]_vars

\* C7 witness: the linux task published, then its stream ended, with
\* fetches still to come from the source.
C7_Witness ==
    /\ variant = "linux"
    /\ cause[1] = "end" /\ pc[1] = "done"
    /\ Len(PublishedBy(1)) >= 1
    /\ fetched < MaxObs

\* C8: however often init has been called, exactly one monitor thread has
\* been started.
C8_InitIdempotent ==
    initCalls >= 1 => Cardinality({t \in Tasks : pc[t] # "unspawned"}) = 1

\* what an observation says about the session
ObservedLocked(o) ==
    IF variant \in Polled THEN o = TRUE
    ELSE o.message = "WM_WTSSESSION_CHANGE" /\ o.wParam = "WTS_SESSION_LOCK"

ObservedUnlocked(o) ==
    IF variant \in Polled THEN o = FALSE
    ELSE o.message = "WM_WTSSESSION_CHANGE" /\ o.wParam = "WTS_SESSION_UNLOCK"

\* C9: every published event has the fixed name, and its payload is "lock"
\* exactly when the observation that triggered it was locked and "unlock"
\* exactly when it was unlocked; nothing else is published.
C9_NameAndPayload ==
    \A i \in 1..Len(published) :
        LET e == published[i]
            o == obs[e.task][e.at]
        IN /\ e.name = "window_screen_lock_status://change_session_status"
           /\ e.payload \in {"lock", "unlock"}
           /\ e.payload = "lock" <=> ObservedLocked(o)
           /\ e.payload = "unlock" <=> ObservedUnlocked(o)

\* C9 witness: both payloads have been published.
C9_Witness ==
    /\ \E i \in 1..Len(published) : published[i].payload = "lock"
    /\ \E i \in 1..Len(published) : published[i].payload = "unlock"

\* C10: within one task the published events follow the order of the
\* observations that triggered them, at most one per observation, and an
\* observation is fetched only when the one before it has been handled.
C10_InOrder ==
    /\ [](\A t \in Tasks :
            LET evs == PublishedBy(t)
            IN /\ \A i \in 1..Len(evs) :
                    /\ evs[i].at \in 1..Len(obs[t])
                    /\ ObservedLocked(obs[t][evs[i].at])
                         \/ ObservedUnlocked(obs[t][evs[i].at])
               /\ \A i \in 1..(Len(evs) - 1) : evs[i].at < evs[i + 1].at
               /\ pc[t] \in {"debounce", "dispatch"}
                    => \A i \in 1..Len(evs) : evs[i].at < Len(obs[t]))
    /\ [][\A t \in Tasks :
            /\ obs'[t] # obs[t] => pc[t] \notin {"debounce", "dispatch"}
            /\ Len(published') <= Len(published) + 1]_vars

\* C10 witness: a task has published for its first and its third
\* observation and not for the second.
C10_Witness ==
    /\ Len(PublishedBy(1)) = 2
    /\ PublishedBy(1)[1].at = 1 /\ PublishedBy(1)[2].at = 3

\* the step a task takes when it reads WINDOW_TAURI
ReadStep(t) == LinuxDebounce(t) \/ MacDebounce(t) \/ WinDispatch(t)

\* C11: WINDOW_TAURI is write-once: empty at process start; a read while
\* it is empty does not block and publishes nothing; once it holds a
\* handle every later store leaves it as it is, so every event of the
\* monitor task goes through that one handle.
C11_WriteOnce ==
    /\ handle = Unset
    /\ [](\A t \in Tasks :
            (handle = Unset /\ pc[t] \in {"debounce", "dispatch"})
               => ENABLED ReadStep(t))
    /\ [](\A i \in 1..Len(published) :
            published[i].via # "unset" /\ published[i].via = handle)
    /\ [][/\ handle # "unset" => handle' = handle
          /\ handle = "unset" => published' = published]_vars

\* C11 witness: a read found the cell empty, the handle was stored, a
\* second store was refused, and two events have gone through the handle.
C11_Witness ==
    /\ variant = "windows"
    /\ handle # Unset /\ setErr
    /\ setAt[1] >= 1
    /\ obs[1][1].message = "WM_WTSSESSION_CHANGE"
    /\ obs[1][1].wParam = "WTS_SESSION_LOCK"
    /\ Len(published) >= 2
    /\ published[1].at >= 2

\* C12: init returns to its caller without waiting for the thread it
\* spawned and never fails: whatever has happened in the thread (a source
\* failure, a missing handle, or nothing yet), the return is possible and
\* the value returned is the plugin.
C12_InitReturns ==
    /\ [](inInit => ENABLED InitReturn)
    /\ [](initCalls >= 1 => plugin = "window_screen_lock_status")
    /\ [][initCalls' # initCalls
             => /\ initCalls' = initCalls + 1
                /\ plugin' = "window_screen_lock_status"
                /\ ~inInit'
                /\ pc' = pc /\ cause' = cause]_vars

\* C12 witness: the thread has already ended on a failure while the host
\* is still inside init.
C12_Witness ==
    /\ inInit
    /\ pc[1] = "done"
    /\ cause[1] \in {"connect", "proxy", "read", "end", "notready",
                     "dictionary", "setup"}

\* C13: in the windows task an error return of GetMessageA ends the loop:
\* the task terminates and publishes nothing after the error.
C13_MessageErrorFatal ==
    \A t \in Tasks :
        variant = "windows" =>
            \A i \in 1..Len(obs[t]) :
                obs[t][i].ret = -1 =>
                    /\ pc[t] = "done"
                    /\ \A k \in 1..Len(published) :
                          published[k].task = t => published[k].at < i

\* C14: the linux task connects at most once in its lifetime, and a
\* connection or proxy failure only happens before the first observation.
C14_AcquireOnce ==
    \A t \in Tasks :
        variant = "linux" =>
            /\ conns[t] <= 1
            /\ cause[t] \in {"connect", "proxy"} => obs[t] = <<>>

\* a message the windows loop does not recognise as lock or unlock
Miss(o) ==
    \/ o.message # "WM_WTSSESSION_CHANGE"
    \/ o.wParam \notin {"WTS_SESSION_LOCK", "WTS_SESSION_UNLOCK"}

\* C15: in the windows task a message that is not a session change, or a
\* session change with another sub-code, publishes nothing, changes no
\* state of the task, and the task goes on to fetch the next message.
C15_MissIgnored ==
    /\ [][\A t \in Tasks :
            (/\ variant = "windows"
             /\ pc[t] = "dispatch" /\ pc'[t] # "dispatch"
             /\ Miss(obs[t][Len(obs[t])]))
            => /\ published' = published
               /\ obs' = obs /\ flg' = flg /\ cause' = cause
               /\ pc'[t] = "sleep"]_vars
    /\ [](\A t \in Tasks :
            (variant = "windows" /\ pc[t] = "sleep") => ENABLED WinSleep(t))

\* C15 witness: with the handle stored, the windows task has handled a
\* WM_PAINT and a session logon message and published nothing.
C15_Witness ==
    /\ variant = "windows"
    /\ handle # Unset /\ setAt[1] = 0
    /\ pc[1] = "getmsg"
    /\ Len(obs[1]) = 2
    /\ obs[1][1].message = "WM_PAINT"
    /\ obs[1][2].wParam = "WTS_SESSION_LOGON"
    /\ published = <<>>

\* C16: in every variant an iteration that does not end the task ends in
\* the sleep, whether or not it published, and the head of the loop is
\* only entered from the thread's start or from the sleep.
C16_SleepEachIteration ==
    [][\A t \in Tasks :
         /\ (pc[t] \in {"debounce", "dispatch"} /\ pc'[t] # pc[t])
               => pc'[t] \in {"sleep", "done"}
         /\ (pc'[t] \in {"connect", "poll", "getmsg"} /\ pc[t] # pc'[t])
               => pc[t] \in {"start", "sleep"}
         /\ obs'[t] # obs[t]
               => pc[t] \in {"next", "poll", "getmsg"}]_vars

\* C16 witness: the windows task is in the sleep after a message that was
\* not a session change, having slept after the message before it too.
C16_Witness ==
    /\ variant = "windows"
    /\ pc[1] = "sleep"
    /\ Len(obs[1]) = 2
    /\ obs[1][2].message = "WM_PAINT"

\* C17: in a polled task that is still running, the remembered state is
\* true exactly when the last event the task published is "lock" (false
\* when it has published nothing or "unlock" last).
C17_FlagMatchesSink ==
    \A t \in Tasks :
        (variant \in Polled /\ pc[t] \notin {"unspawned", "done"})
        => LET evs == PublishedBy(t)
           IN flg[t] = (Len(evs) > 0 /\ evs[Len(evs)].payload = "lock")

\* C17 witness: the handle was stored after the first observation, and
\* the running task remembers locked after publishing "lock".
C17_Witness ==
    /\ variant \in Polled
    /\ pc[1] = "sleep"
    /\ setAt[1] >= 1
    /\ flg[1]
    /\ Len(published) = 1 /\ published[1].payload = "lock"

\* C18: the events of a polled task read lock, unlock, lock, ...: the
\* first is "lock", and a first observation of unlocked publishes nothing.
C18_Alternation ==
    \A t \in Tasks :
        variant \in Polled
        => LET evs == PublishedBy(t)
           IN /\ \A i \in 1..Len(evs) :
                    evs[i].payload = (IF i % 2 = 1 THEN "lock" ELSE "unlock")
              /\ (obs[t] # <<>> /\ obs[t][1] = FALSE)
                    => \A i \in 1..Len(evs) : evs[i].at > 1

\* C18 witness: unlocked at start-up, then locked and unlocked again: two
\* events, none for the first observation.
C18_Witness ==
    /\ variant \in Polled
    /\ Processed(1) = <<FALSE, TRUE, FALSE>>
    /\ Len(published) = 2
    /\ published[1].at = 2 /\ published[2].at = 3

====
